---- MODULE Spec2Model ----
(***************************************************************************)
(* Model of backend/main.py of SprintSlidesAI: the deck orchestrator       *)
(* (generate_deck / download_pdf_get), the JSON clean-up and normalizer    *)
(* (strip_markdown_fences, force_json_only, safe_json_load,                *)
(* normalize_slides), the completion client (groq_chat) and the paginating *)
(* renderer (wrap_text, build_pdf).                                        *)
(*                                                                         *)
(* Text is a sequence of one-character strings.  A completion text is a    *)
(* sequence of lexemes (tokens): the fence ```, newline, space, the JSON   *)
(* punctuation, JSON literals and bare words.  A decoded JSON value is a   *)
(* record [k, s, keys, items]: k is the Python type of the value, s the    *)
(* characters of a str / the digits of an int, keys and items the keys and *)
(* values of a dict in insertion order (items alone for a list).           *)
(***************************************************************************)
EXTENDS Integers, Sequences, FiniteSets, TLC

VARIABLES
    \* ---- one generation request (generate_deck / download_pdf_get)
    route,        \* "generateDeck" | "downloadPdf"
    reqTopic,     \* topic as sent by the caller
    reqCount,     \* slideCount as seen by the handler (schema default applied)
    keyPresent,   \* GROQ_API_KEY is non-empty
    pc,           \* position of the handler
    n,            \* local n of the handler
    calls,        \* requests posted to the completion endpoint, in order
    att1, att2,   \* what happened in attempt 1 / attempt 2
    result,       \* the response of the handler
    \* ---- normalize_slides applied to a decoded value
    normIn, normN, normOut, normPc,
    \* ---- build_pdf
    pdfSlides,    \* contents of the slides handed to build_pdf
    pdfPc,        \* position inside build_pdf
    si, bi,       \* current slide and block (paragraph) index
    y,            \* vertical cursor
    cur,          \* the page being drawn
    pages,        \* pages finished by showPage, in order
    drawn         \* content lines drawn so far, in order

reqVars  == <<route, reqTopic, reqCount, keyPresent, pc, n, calls, att1, att2, result>>
normVars == <<normIn, normN, normOut, normPc>>
pdfVars  == <<pdfSlides, pdfPc, si, bi, y, cur, pages, drawn>>
vars     == <<reqVars, normVars, pdfVars>>

-----------------------------------------------------------------------------
(* Bounds of the model *)

MaxN      == 3    \* largest n the normalizer is exercised with
MaxExtra  == 1    \* slides supplied beyond n
MaxBlocks == 3    \* paragraphs of the slides handed to build_pdf, in total
BigWords  == 45   \* words of the long paragraph (one wrapped line each)

-----------------------------------------------------------------------------
(* Python str helpers *)

Whitespace == {" ", "\n"}

RECURSIVE LStrip(_)
LStrip(s) ==
    IF s # <<>> /\ Head(s) \in Whitespace THEN LStrip(Tail(s)) ELSE s

RECURSIVE RStrip(_)
RStrip(s) ==
    IF s # <<>> /\ s[Len(s)] \in Whitespace
    THEN RStrip(SubSeq(s, 1, Len(s) - 1)) ELSE s

\* str.strip()
Strip(s) == RStrip(LStrip(s))

-----------------------------------------------------------------------------
(* Decoded JSON values, as json.loads builds them *)

JStr(s)          == [k |-> "str",  s |-> s,    keys |-> <<>>, items |-> <<>>]
JInt(digits)     == [k |-> "int",  s |-> digits, keys |-> <<>>, items |-> <<>>]
JNone            == [k |-> "None", s |-> <<>>, keys |-> <<>>, items |-> <<>>]
JBool(b)         == [k |-> "bool", s |-> IF b THEN <<"1">> ELSE <<"0">>,
                     keys |-> <<>>, items |-> <<>>]
JList(items)     == [k |-> "list", s |-> <<>>, keys |-> <<>>, items |-> items]
JDict(keys, items) == [k |-> "dict", s |-> <<>>, keys |-> keys, items |-> items]

K_slides  == <<"s","l","i","d","e","s">>
K_type    == <<"t","y","p","e">>
K_title   == <<"t","i","t","l","e">>
K_content == <<"c","o","n","t","e","n","t">>
S_overview == <<"o","v","e","r","v","i","e","w">>

\* position of key in a dict, 0 when absent
KeyPos(d, key) ==
    IF \E j \in 1..Len(d.keys) : d.keys[j] = key
    THEN CHOOSE j \in 1..Len(d.keys) : d.keys[j] = key
    ELSE 0

\* dict.get(key, default)
DictGet(d, key, default) ==
    IF KeyPos(d, key) = 0 THEN default ELSE d.items[KeyPos(d, key)]

\* d[key] = val : a repeated key keeps its first position, last value wins
DictSet(d, key, val) ==
    IF KeyPos(d, key) = 0
    THEN JDict(Append(d.keys, key), Append(d.items, val))
    ELSE JDict(d.keys, [d.items EXCEPT ![KeyPos(d, key)] = val])

\* repr() of a str whose characters are letters, digits, spaces and newlines
ReprChars(s) ==
    LET RECURSIVE Esc(_)
        Esc(t) == IF t = <<>> THEN <<>>
                  ELSE (IF Head(t) = "\n" THEN <<"\\", "n">> ELSE <<Head(t)>>)
                       \o Esc(Tail(t))
    IN <<"'">> \o Esc(s) \o <<"'">>

RECURSIVE PyRepr(_)
RECURSIVE ReprJoin(_, _, _)
\* repr() of a decoded value
PyRepr(v) ==
    CASE v.k = "str"  -> ReprChars(v.s)
      [] v.k = "int"  -> v.s
      [] v.k = "None" -> <<"N","o","n","e">>
      [] v.k = "bool" -> IF v.s = <<"1">> THEN <<"T","r","u","e">>
                         ELSE <<"F","a","l","s","e">>
      [] v.k = "list" -> <<"[">> \o ReprJoin(v, 1, FALSE) \o <<"]">>
      [] v.k = "dict" -> <<"{">> \o ReprJoin(v, 1, TRUE) \o <<"}">>

\* the comma-separated members of a list / dict from position j on
ReprJoin(v, j, withKeys) ==
    IF j > Len(v.items) THEN <<>>
    ELSE (IF j > 1 THEN <<",", " ">> ELSE <<>>)
         \o (IF withKeys THEN ReprChars(v.keys[j]) \o <<":", " ">> ELSE <<>>)
         \o PyRepr(v.items[j])
         \o ReprJoin(v, j + 1, withKeys)

\* str(v)
PyStr(v) == IF v.k = "str" THEN v.s ELSE PyRepr(v)

-----------------------------------------------------------------------------
(* normalize_slides *)

NormSlides(sl) == [kind |-> "slides", slides |-> sl]
NormNone       == [kind |-> "None",   slides |-> <<>>]
NormRaised     == [kind |-> "raised", slides |-> <<>>]

\* one pass of the loop body: the three coerced fields of a slide
CoerceSlide(s) ==
    [type    |-> Strip(PyStr(DictGet(s, K_type, JStr(S_overview)))),
     title   |-> Strip(PyStr(DictGet(s, K_title, JStr(<<>>)))),
     content |-> Strip(PyStr(DictGet(s, K_content, JStr(<<>>))))]

\* mutant: an entry that is not a dict is skipped instead of failing
normalize_slides_SkipBad(decoded, nn) ==
    IF decoded.k # "dict" THEN NormRaised
    ELSE
    LET got    == DictGet(decoded, K_slides, JNone)
        slides == IF got.k = "dict" THEN JList(got.items) ELSE got
    IN  IF slides.k # "list" THEN NormNone
        ELSE
        LET trimmed == IF Len(slides.items) > nn
                       THEN SubSeq(slides.items, 1, nn) ELSE slides.items
        IN  IF Len(trimmed) # nn THEN NormNone
            ELSE NormSlides([j \in 1..nn |->
                               IF trimmed[j].k = "dict"
                               THEN CoerceSlide(trimmed[j])
                               ELSE CoerceSlide(JDict(<<>>, <<>>))])

\* mutant: the list is not trimmed when it is too long
normalize_slides_NoTrim(decoded, nn) ==
    IF decoded.k # "dict" THEN NormRaised
    ELSE
    LET got    == DictGet(decoded, K_slides, JNone)
        slides == IF got.k = "dict" THEN JList(got.items) ELSE got
    IN  IF slides.k # "list" THEN NormNone
        ELSE IF Len(slides.items) < nn THEN NormNone
        ELSE IF \E j \in 1..Len(slides.items) : slides.items[j].k # "dict"
             THEN NormNone
        ELSE NormSlides([j \in 1..Len(slides.items) |->
                             CoerceSlide(slides.items[j])])

\* mutant: the last n entries are kept instead of the first n
normalize_slides_KeepLast(decoded, nn) ==
    IF decoded.k # "dict" THEN NormRaised
    ELSE
    LET got    == DictGet(decoded, K_slides, JNone)
        slides == IF got.k = "dict" THEN JList(got.items) ELSE got
    IN  IF slides.k # "list" THEN NormNone
        ELSE
        LET trimmed == IF Len(slides.items) > nn
                       THEN SubSeq(slides.items, Len(slides.items) - nn + 1,
                                   Len(slides.items))
                       ELSE slides.items
        IN  IF Len(trimmed) # nn THEN NormNone
            ELSE IF \E j \in 1..nn : trimmed[j].k # "dict" THEN NormNone
            ELSE NormSlides([j \in 1..nn |-> CoerceSlide(trimmed[j])])

normalize_slides(decoded, nn) ==
    IF decoded.k # "dict" THEN NormRaised      \* decoded.get: AttributeError
    ELSE
    LET got    == DictGet(decoded, K_slides, JNone)
        slides == IF got.k = "dict" THEN JList(got.items) ELSE got
    IN  IF slides.k # "list" THEN NormNone
        ELSE
        LET trimmed == IF Len(slides.items) > nn
                       THEN SubSeq(slides.items, 1, nn) ELSE slides.items
        IN  IF Len(trimmed) # nn THEN NormNone
            ELSE IF \E j \in 1..nn : trimmed[j].k # "dict" THEN NormNone
            ELSE NormSlides([j \in 1..nn |-> CoerceSlide(trimmed[j])])

-----------------------------------------------------------------------------
(* Completion text: lexemes, clean-up and json.loads *)

Tok(t, s) == [t |-> t, s |-> s]
T(t)      == Tok(t, <<>>)

WsTok == {"nl", "sp"}

RECURSIVE TLStrip(_)
TLStrip(t) ==
    IF t # <<>> /\ Head(t).t \in WsTok THEN TLStrip(Tail(t)) ELSE t

RECURSIVE TRStrip(_)
TRStrip(t) ==
    IF t # <<>> /\ t[Len(t)].t \in WsTok
    THEN TRStrip(SubSeq(t, 1, Len(t) - 1)) ELSE t

\* str.strip() on a text of lexemes
TStrip(t) == TRStrip(TLStrip(t))

\* str.find / str.rfind of a lexeme: its first / last position, 0 for -1
Find(t, kind) ==
    IF \E j \in 1..Len(t) : t[j].t = kind
    THEN CHOOSE j \in 1..Len(t) :
             t[j].t = kind /\ \A h \in 1..(j - 1) : t[h].t # kind
    ELSE 0

RFind(t, kind) ==
    IF \E j \in 1..Len(t) : t[j].t = kind
    THEN CHOOSE j \in 1..Len(t) :
             t[j].t = kind /\ \A h \in (j + 1)..Len(t) : t[h].t # kind
    ELSE 0

strip_markdown_fences(text) ==
    LET t0 == TStrip(text)
    IN  IF t0 # <<>> /\ t0[1].t = "fence"
        THEN LET first_nl == Find(t0, "nl")
                 t1 == IF first_nl # 0
                       THEN SubSeq(t0, first_nl + 1, Len(t0)) ELSE t0
                 last == RFind(t1, "fence")
                 t2 == IF last # 0 THEN SubSeq(t1, 1, last - 1) ELSE t1
             IN  TStrip(t2)
        ELSE TStrip(t0)

force_json_only(text) ==
    LET t     == TStrip(text)
        start == Find(t, "{")
        end   == RFind(t, "}")
    IN  IF start = 0 \/ end = 0 \/ end <= start
        THEN t
        ELSE TStrip(SubSeq(t, start, end))

RECURSIVE SkipWs(_, _)
SkipWs(toks, i) ==
    IF i <= Len(toks) /\ toks[i].t \in WsTok THEN SkipWs(toks, i + 1) ELSE i

ParseFail == [ok |-> FALSE, val |-> JNone, pos |-> 0]
Parsed(v, p) == [ok |-> TRUE, val |-> v, pos |-> p]

RECURSIVE ParseValue(_, _)
RECURSIVE ParseElems(_, _, _)
RECURSIVE ParseMembers(_, _, _)

\* one JSON value starting at or after position i0
ParseValue(toks, i0) ==
    LET i == SkipWs(toks, i0)
    IN  IF i > Len(toks) THEN ParseFail
        ELSE
        LET tk == toks[i]
            j  == SkipWs(toks, i + 1)
        IN  CASE tk.t = "str"   -> Parsed(JStr(tk.s), i + 1)
              [] tk.t = "int"   -> Parsed(JInt(tk.s), i + 1)
              [] tk.t = "null"  -> Parsed(JNone, i + 1)
              [] tk.t = "true"  -> Parsed(JBool(TRUE), i + 1)
              [] tk.t = "false" -> Parsed(JBool(FALSE), i + 1)
              [] tk.t = "["     ->
                    IF j <= Len(toks) /\ toks[j].t = "]"
                    THEN Parsed(JList(<<>>), j + 1)
                    ELSE ParseElems(toks, i + 1, <<>>)
              [] tk.t = "{"     ->
                    IF j <= Len(toks) /\ toks[j].t = "}"
                    THEN Parsed(JDict(<<>>, <<>>), j + 1)
                    ELSE ParseMembers(toks, i + 1, JDict(<<>>, <<>>))
              [] OTHER          -> ParseFail

\* the elements of a list: a value, then "," and more, or "]"
ParseElems(toks, i, acc) ==
    LET r == ParseValue(toks, i)
        j == SkipWs(toks, r.pos)
    IN  IF ~r.ok \/ j > Len(toks) THEN ParseFail
        ELSE IF toks[j].t = "," THEN ParseElems(toks, j + 1, Append(acc, r.val))
        ELSE IF toks[j].t = "]" THEN Parsed(JList(Append(acc, r.val)), j + 1)
        ELSE ParseFail

\* the members of a dict: a string, ":", a value, then "," and more, or "}"
ParseMembers(toks, i, acc) ==
    LET a == SkipWs(toks, i)
        c == SkipWs(toks, a + 1)
        r == ParseValue(toks, c + 1)
        j == SkipWs(toks, r.pos)
    IN  IF a > Len(toks) \/ toks[a].t # "str" THEN ParseFail
        ELSE IF c > Len(toks) \/ toks[c].t # ":" THEN ParseFail
        ELSE IF ~r.ok \/ j > Len(toks) THEN ParseFail
        ELSE IF toks[j].t = ","
             THEN ParseMembers(toks, j + 1, DictSet(acc, toks[a].s, r.val))
        ELSE IF toks[j].t = "}"
             THEN Parsed(DictSet(acc, toks[a].s, r.val), j + 1)
        ELSE ParseFail

\* json.loads: one value and nothing but whitespace after it
json_loads(toks) ==
    LET r == ParseValue(toks, 1)
    IN  IF r.ok /\ SkipWs(toks, r.pos) > Len(toks)
        THEN [ok |-> TRUE, val |-> r.val]
        ELSE [ok |-> FALSE, val |-> JNone]

\* ok = FALSE stands for the HTTPException(500, "Invalid JSON from model")
safe_json_load(raw) ==
    json_loads(force_json_only(strip_markdown_fences(raw)))

-----------------------------------------------------------------------------
(* Inputs: decoded values and completion texts the endpoint may return *)

MinSlides == 3
MaxSlides == 15
DefaultSlideCount == 5
TokenBase == 1200
TokenPerSlide == 350
TokenCap == 6500
RetryExtra == 1200

\* min(6500, 1200 + (n * 350))
estimate_max_tokens(nn) ==
    LET a == TokenBase + (nn * TokenPerSlide) IN IF a < TokenCap THEN a ELSE TokenCap

E_full   == JDict(<<K_type, K_title, K_content>>,
                  <<JStr(<<"e","x">>), JStr(<<" ","T"," ">>),
                    JStr(<<"a","\n","b","\n">>)>>)
E_sparse == JDict(<<K_title, K_content>>, <<JInt(<<"7">>), JNone>>)
E_empty  == JDict(<<>>, <<>>)
E_bad    == JStr(<<"x">>)

DictEntries == {E_full, E_sparse, E_empty}
Entries     == DictEntries \cup {E_bad}

\* the j-th key of a mapping of slides: "k", "kk", ...
SlideKey(j) == [h \in 1..j |-> "k"]

ArrayForm(es)   == JDict(<<K_slides>>, <<JList(es)>>)
MappingForm(es) == JDict(<<K_slides>>,
                         <<JDict([j \in 1..Len(es) |-> SlideKey(j)], es)>>)

\* j-th slide of a well-formed deck
DeckEntry(j) == IF j % 3 = 1 THEN E_full ELSE IF j % 3 = 2 THEN E_sparse ELSE E_empty
Deck(len)    == [j \in 1..len |-> DeckEntry(j)]

RECURSIVE Render(_)
RECURSIVE RenderJoin(_, _)
\* the JSON text of a decoded value
Render(v) ==
    CASE v.k = "str"  -> <<Tok("str", v.s)>>
      [] v.k = "int"  -> <<Tok("int", v.s)>>
      [] v.k = "None" -> <<T("null")>>
      [] v.k = "bool" -> IF v.s = <<"1">> THEN <<T("true")>> ELSE <<T("false")>>
      [] v.k = "list" -> <<T("[")>> \o RenderJoin(v, 1) \o <<T("]")>>
      [] v.k = "dict" -> <<T("{")>> \o RenderJoin(v, 1) \o <<T("}")>>

RenderJoin(v, j) ==
    IF j > Len(v.items) THEN <<>>
    ELSE (IF j > 1 THEN <<T(","), T("sp")>> ELSE <<>>)
         \o (IF v.k = "dict" THEN <<Tok("str", v.keys[j]), T(":"), T("sp")>>
             ELSE <<>>)
         \o Render(v.items[j])
         \o RenderJoin(v, j + 1)

Word(w) == Tok("word", w)

\* ```json <newline> text <newline> ```
Fenced(text) ==
    <<T("fence"), Word(<<"j","s","o","n">>), T("nl")>> \o text
        \o <<T("nl"), T("fence"), T("nl")>>

\* commentary before and after the text
Commented(text) ==
    <<Word(<<"H","e","r","e">>), T(":"), T("nl")>> \o text
        \o <<T("nl"), Word(<<"D","o","n","e">>)>>

\* completion texts for a request of nn slides
Responses(nn) ==
    { Render(ArrayForm(Deck(nn))),
      Fenced(Render(ArrayForm(Deck(nn)))),
      Commented(Render(ArrayForm(Deck(nn)))),
      Render(MappingForm(Deck(nn))),
      Render(ArrayForm(Deck(nn + MaxExtra))),
      Render(ArrayForm(Deck(nn - 1))),
      Render(ArrayForm([Deck(nn) EXCEPT ![2] = E_bad])),
      Render(JDict(<<>>, <<>>)),
      Render(JDict(<<K_slides>>, <<JStr(<<"x">>)>>)),
      <<Word(<<"S","o","r","r","y">>)>>,
      SubSeq(Render(ArrayForm(Deck(nn))), 1, Len(Render(ArrayForm(Deck(nn)))) - 2),
      Render(JList(<<>>)),
      Render(JInt(<<"4","2">>)) }

ErrorBody == <<Word(<<"r","a","t","e">>)>>
Statuses  == {200, 429, 503}

\* what the endpoint may answer to one posted request
Replies(nn) ==
    {[net |-> "exception", status |-> 0, envelope |-> FALSE, body |-> <<>>]}
    \cup {[net |-> "response", status |-> st, envelope |-> FALSE, body |-> ErrorBody]
            : st \in Statuses}
    \cup {[net |-> "response", status |-> 200, envelope |-> TRUE, body |-> b]
            : b \in Responses(nn)}

Topics      == {<<>>, <<" ">>, <<"a">>, <<" ", "a", "\n">>}
SlideCounts == (MinSlides - 4)..(MaxSlides + 2)

-----------------------------------------------------------------------------
(* groq_chat and one attempt of the orchestrator *)

\* mutant: only server errors of the endpoint are treated as failures
StatusOk_Lenient(status) == status < 500

\* resp.status_code != 200 raises
StatusOk(status) == status = 200

\* what groq_chat does with the endpoint's reply:
\*   "nokey"  HTTPException(500) before any request is posted
\*   "crash"  an exception that is not an HTTPException (requests, KeyError)
\*   "http"   HTTPException(resp.status_code, resp.text)
\*   "text"   the completion text is returned
groq_chat(key, reply) ==
    IF ~key
    THEN [out |-> "nokey", status |-> 500, text |-> <<>>]
    ELSE IF reply.net = "exception"
    THEN [out |-> "crash", status |-> 500, text |-> <<>>]
    ELSE IF ~StatusOk(reply.status)
    THEN [out |-> "http", status |-> reply.status, text |-> reply.body]
    ELSE IF ~reply.envelope
    THEN [out |-> "crash", status |-> 500, text |-> <<>>]
    ELSE [out |-> "text", status |-> 200, text |-> reply.body]

NoAttempt ==
    [called |-> FALSE, out |-> "none", status |-> 0, body |-> <<>>,
     decode |-> "none", norm |-> "none", slides |-> <<>>]

\* groq_chat, safe_json_load and normalize_slides of one attempt, up to the
\* first exception
RunAttempt(key, reply, nn) ==
    LET g == groq_chat(key, reply)
        d == safe_json_load(g.text)
        r == normalize_slides(d.val, nn)
        a == [called |-> key, out |-> g.out,
              status |-> IF key /\ reply.net = "response" THEN reply.status ELSE 0,
              body   |-> IF key THEN reply.body ELSE <<>>,
              decode |-> "none", norm |-> "none", slides |-> <<>>]
    IN  IF g.out # "text" THEN a
        ELSE IF ~d.ok THEN [a EXCEPT !.decode = "fail"]
        ELSE [a EXCEPT !.decode = "ok", !.norm = r.kind, !.slides = r.slides]

\* mutant: the retry reuses the budget of attempt 1
retry_max_tokens_Same(max_tokens) == max_tokens

\* max_tokens + 1200 of the second groq_chat call
retry_max_tokens(max_tokens) == max_tokens + RetryExtra

\* "if slides is None" after attempt 1
NeedsRetry(a) == a.norm = "None"

\* n < 3 or n > 15 raises
ValidCount(nn) == ~(nn < MinSlides \/ nn > MaxSlides)

Pending == [kind |-> "pending", status |-> 0, detail |-> "", body |-> <<>>,
            slides |-> <<>>]
Err(status, detail, body) ==
    [kind |-> "error", status |-> status, detail |-> detail, body |-> body,
     slides |-> <<>>]
Crash == [kind |-> "crash", status |-> 500, detail |-> "Internal Server Error",
          body |-> <<>>, slides |-> <<>>]
Ok(sl) == [kind |-> "ok", status |-> 200, detail |-> "", body |-> <<>>,
           slides |-> sl]

\* the exception an attempt ends the request with, if any
Raises(a) == a.out # "text" \/ a.decode = "fail" \/ a.norm = "raised"
Raised(a) ==
    IF a.out = "nokey" THEN Err(500, "GROQ_API_KEY missing on server", <<>>)
    ELSE IF a.out = "http" THEN Err(a.status, "upstream", a.body)
    ELSE IF a.out = "crash" THEN Crash
    ELSE IF a.decode = "fail" THEN Err(500, "Invalid JSON from model", <<>>)
    ELSE Crash

-----------------------------------------------------------------------------
(* The request: generate_deck / download_pdf_get *)

Routes == {"generateDeck", "downloadPdf"}

\* a page nothing has been drawn on yet
BlankPage(slide) == [slide |-> slide, footer |-> FALSE, lines |-> 0]

normIdle == normIn = JNone /\ normN = 0 /\ normOut = NormNone /\ normPc = "idle"
pdfIdle  ==
    /\ pdfSlides = <<>> /\ pdfPc = "idle" /\ si = 0 /\ bi = 0
    /\ y = 0 /\ cur = BlankPage(0) /\ pages = <<>> /\ drawn = <<>>
reqIdle  ==
    /\ route = "none" /\ reqTopic = <<>> /\ reqCount = [isNone |-> TRUE, v |-> 0]
    /\ keyPresent = FALSE /\ pc = "idle" /\ n = 0 /\ calls = <<>>
    /\ att1 = NoAttempt /\ att2 = NoAttempt /\ result = Pending

Init ==
    /\ route \in Routes
    /\ reqTopic \in Topics
    /\ reqCount \in {[isNone |-> FALSE, v |-> c] : c \in SlideCounts}
                    \cup {[isNone |-> TRUE, v |-> 0]}
    /\ (reqCount.isNone => route = "generateDeck")
    /\ keyPresent \in BOOLEAN
    /\ pc = "received"
    /\ n = 0
    /\ calls = <<>>
    /\ att1 = NoAttempt
    /\ att2 = NoAttempt
    /\ result = Pending
    /\ normIdle
    /\ pdfIdle

\* topic.strip(), int(slideCount or 5) and the two checks
Validate ==
    /\ pc = "received"
    /\ LET topic == Strip(reqTopic)
           nn    == IF reqCount.isNone \/ reqCount.v = 0
                    THEN DefaultSlideCount ELSE reqCount.v
       IN  /\ n' = nn
           /\ IF topic = <<>>
              THEN /\ result' = Err(400, "topic is required", <<>>)
                   /\ pc' = "done"
              ELSE IF ~ValidCount(nn)
              THEN /\ result' = Err(400, "slideCount must be between 3 and 15", <<>>)
                   /\ pc' = "done"
              ELSE /\ pc' = "attempt1"
                   /\ UNCHANGED result
    /\ UNCHANGED <<route, reqTopic, reqCount, keyPresent, calls, att1, att2>>
    /\ UNCHANGED <<normVars, pdfVars>>

\* Attempt 1: build_prompt, groq_chat, safe_json_load, normalize_slides
Attempt1 ==
    /\ pc = "attempt1"
    /\ \E reply \in Replies(n) :
         LET a == RunAttempt(keyPresent, reply, n)
         IN  /\ att1' = a
             /\ calls' = IF a.called
                         THEN Append(calls, [prompt |-> "build_prompt",
                                             max_tokens |-> estimate_max_tokens(n)])
                         ELSE calls
             /\ IF Raises(a)
                THEN pc' = "done" /\ result' = Raised(a)
                ELSE IF NeedsRetry(a)
                THEN pc' = "attempt2" /\ UNCHANGED result
                ELSE pc' = "done" /\ result' = Ok(a.slides)
    /\ UNCHANGED <<route, reqTopic, reqCount, keyPresent, n, att2>>
    /\ UNCHANGED <<normVars, pdfVars>>

\* Retry once: build_retry_prompt, groq_chat, safe_json_load, normalize_slides
Attempt2 ==
    /\ pc = "attempt2"
    /\ \E reply \in Replies(n) :
         LET a == RunAttempt(keyPresent, reply, n)
         IN  /\ att2' = a
             /\ calls' = IF a.called
                         THEN Append(calls,
                                [prompt |-> "build_retry_prompt",
                                 max_tokens |->
                                     retry_max_tokens(estimate_max_tokens(n))])
                         ELSE calls
             /\ pc' = "done"
             /\ IF Raises(a)
                THEN result' = Raised(a)
                ELSE IF a.norm = "None"
                THEN result' =
                       Err(500,
                           IF route = "generateDeck"
                           THEN "Model output inconsistent"
                           ELSE "Failed to generate slides for PDF", <<>>)
                ELSE result' = Ok(a.slides)
    /\ UNCHANGED <<route, reqTopic, reqCount, keyPresent, n, att1>>
    /\ UNCHANGED <<normVars, pdfVars>>

Next == Validate \/ Attempt1 \/ Attempt2

Spec == Init /\ [][Next]_vars

-----------------------------------------------------------------------------
(* normalize_slides as a function of its arguments *)

\* sequences of entries of length lo..hi
EntrySeqs(lo, hi) == UNION {[1..len -> Entries] : len \in lo..hi}

\* decoded values whose slides have at most maxLen entries
NormInputs(maxLen) ==
    {ArrayForm(es) : es \in EntrySeqs(0, maxLen)}
    \cup {MappingForm(es) : es \in EntrySeqs(0, maxLen)}
    \cup {JDict(<<>>, <<>>), JDict(<<K_slides>>, <<JNone>>),
          JDict(<<K_slides>>, <<JStr(<<"x">>)>>)}

InitNorm ==
    /\ normIn \in NormInputs(MaxN + MaxExtra)
    /\ normN \in MinSlides..MaxN
    /\ normOut = NormNone
    /\ normPc = "call"
    /\ reqIdle
    /\ pdfIdle

Normalize ==
    /\ normPc = "call"
    /\ normOut' = normalize_slides(normIn, normN)
    /\ normPc' = "returned"
    /\ UNCHANGED <<normIn, normN, reqVars, pdfVars>>

NextNorm == Normalize

SpecNorm == InitNorm /\ [][NextNorm]_vars

-----------------------------------------------------------------------------
(* wrap_text and build_pdf.  Lengths are in units of 1/127 pt, in which    *)
(* reportlab's cm (72/2.54 pt) and the A4 height (29.7 cm) are integers.   *)
(* A paragraph is the list of its words (text.split()), a word its length. *)

Pt         == 127
Cm         == 3600
PageHeight == 106920
MaxChars   == 95

LineHeight      == 14 * Pt
GapHeight       == 10 * Pt
BottomMargin    == (5 * Cm) \div 2
ContentTop      == PageHeight - 6 * Cm
ContinuationTop == PageHeight - 3 * Cm

RECURSIVE Sum(_)
Sum(ws) == IF ws = <<>> THEN 0 ELSE Head(ws) + Sum(Tail(ws))

\* len(current), current being the words joined by single spaces
LineLen(line) == IF line = <<>> THEN 0 ELSE Sum(line) + Len(line) - 1

RECURSIVE WrapLoop(_, _, _, _, _)
\* the loop of wrap_text from word j on, and the final append
WrapLoop(words, j, current, lines, max_chars) ==
    IF j > Len(words)
    THEN IF current # <<>> THEN Append(lines, current) ELSE lines
    ELSE IF LineLen(current) + words[j] + 1 <= max_chars
    THEN WrapLoop(words, j + 1, Append(current, words[j]), lines, max_chars)
    ELSE WrapLoop(words, j + 1, <<words[j]>>,
                  IF current # <<>> THEN Append(lines, current) ELSE lines,
                  max_chars)

wrap_text(words, max_chars) == WrapLoop(words, 1, <<>>, <<>>, max_chars)

\* mutant: a page is broken only once the cursor has left the sheet
NeedsNewPage_Late(yy) == yy < 0

\* "if y < 2.5 * cm" before a line is drawn
NeedsNewPage(yy) == yy < BottomMargin

\* c.showPage(), background, header logo, y = height - 3.0 * cm
BreakPage(st, slide) ==
    [y |-> ContinuationTop, cur |-> BlankPage(slide),
     pages |-> Append(st.pages, st.cur), drawn |-> st.drawn]

\* c.drawString(1.7 * cm, y, line); y -= 14
DrawLine(st, slide, block, line) ==
    [y     |-> st.y - LineHeight,
     cur   |-> [st.cur EXCEPT !.lines = @ + 1],
     pages |-> st.pages,
     drawn |-> Append(st.drawn,
                      [slide |-> slide, block |-> block, line |-> line,
                       y |-> st.y, page |-> Len(st.pages) + 1])]

RECURSIVE DrawLines(_, _, _, _, _)
\* "for line in wrapped" from line j on; st = [y, cur, pages, drawn]
DrawLines(wrapped, j, slide, block, st) ==
    IF j > Len(wrapped) THEN st
    ELSE IF NeedsNewPage(st.y)
    THEN DrawLines(wrapped, j + 1, slide, block,
                   DrawLine(BreakPage(st, slide), slide, block, wrapped[j]))
    ELSE DrawLines(wrapped, j + 1, slide, block,
                   DrawLine(st, slide, block, wrapped[j]))

\* paragraphs of the model
B_empty == <<>>
B_wide  == <<100, 40, 54, 1>>
B_big   == [j \in 1..BigWords |-> IF j % 2 = 1 THEN 60 ELSE 50]
Blocks  == {B_empty, B_wide, B_big}

\* content.strip().split("\n"): no empty first or last paragraph, except
\* for the single empty paragraph of an empty content
ContentsUpTo(b) ==
    {c \in UNION {[1..len -> Blocks] : len \in 1..b} :
        Len(c) = 1 \/ (c[1] # <<>> /\ c[Len(c)] # <<>>)}

RECURSIVE DecksUpTo(_)
\* lists of slide contents with at most b paragraphs in total
DecksUpTo(b) ==
    {<<>>} \cup UNION {{<<c>> \o d : d \in DecksUpTo(b - Len(c))}
                          : c \in ContentsUpTo(b)}

InitPdf ==
    /\ pdfSlides \in DecksUpTo(MaxBlocks) \ {<<>>}
    /\ pdfPc = "title"
    /\ si = 0
    /\ bi = 0
    /\ y = 0
    /\ cur = BlankPage(0)
    /\ pages = <<>>
    /\ drawn = <<>>
    /\ reqIdle
    /\ normIdle

\* title page: background, logo, title, topic, caption, showPage
TitlePage ==
    /\ pdfPc = "title"
    /\ pages' = Append(pages, [cur EXCEPT !.footer = TRUE])
    /\ si' = 1
    /\ cur' = BlankPage(1)
    /\ pdfPc' = "header"
    /\ UNCHANGED <<pdfSlides, bi, y, drawn, reqVars, normVars>>

\* the head of a slide page up to the divider; y = height - 6.0 * cm
SlideHeader ==
    /\ pdfPc = "header"
    /\ y' = ContentTop
    /\ bi' = 1
    /\ pdfPc' = "blocks"
    /\ UNCHANGED <<pdfSlides, si, cur, pages, drawn, reqVars, normVars>>

\* one pass of "for block in blocks" for an empty paragraph
GapBlock ==
    /\ pdfPc = "blocks"
    /\ bi <= Len(pdfSlides[si])
    /\ pdfSlides[si][bi] = <<>>
    /\ y' = y - GapHeight
    /\ bi' = bi + 1
    /\ UNCHANGED <<pdfSlides, pdfPc, si, cur, pages, drawn, reqVars, normVars>>

\* one pass of "for block in blocks" for a paragraph with text
TextBlock ==
    /\ pdfPc = "blocks"
    /\ bi <= Len(pdfSlides[si])
    /\ pdfSlides[si][bi] # <<>>
    /\ LET st == DrawLines(wrap_text(pdfSlides[si][bi], MaxChars), 1, si, bi,
                           [y |-> y, cur |-> cur, pages |-> pages,
                            drawn |-> drawn])
       IN  /\ y' = st.y
           /\ cur' = st.cur
           /\ pages' = st.pages
           /\ drawn' = st.drawn
    /\ bi' = bi + 1
    /\ UNCHANGED <<pdfSlides, pdfPc, si, reqVars, normVars>>

\* footer caption and showPage once the paragraphs are exhausted; then the
\* next slide, or c.save()
SlideFooter ==
    /\ pdfPc = "blocks"
    /\ bi > Len(pdfSlides[si])
    /\ pages' = Append(pages, [cur EXCEPT !.footer = TRUE])
    /\ IF si < Len(pdfSlides)
       THEN /\ si' = si + 1
            /\ cur' = BlankPage(si + 1)
            /\ pdfPc' = "header"
       ELSE /\ pdfPc' = "saved"
            /\ UNCHANGED <<si, cur>>
    /\ UNCHANGED <<pdfSlides, bi, y, drawn, reqVars, normVars>>

NextPdf == TitlePage \/ SlideHeader \/ GapBlock \/ TextBlock \/ SlideFooter

SpecPdf == InitPdf /\ [][NextPdf]_vars

-----------------------------------------------------------------------------
(* Properties of the request (checked under Spec) *)

IsStr(x) == x \in Seq(STRING)

IsSlide(x) ==
    /\ DOMAIN x = {"type", "title", "content"}
    /\ IsStr(x.type) /\ IsStr(x.title) /\ IsStr(x.content)

Attempts == {att1, att2}

\* the endpoint answered this attempt with a status that is not 2xx
UpstreamFailure(a) ==
    a.called /\ a.status # 0 /\ ~(a.status \in 200..299)

\* C1: a request with a non-empty topic and a requested count in [3,15]
\* that ends in success returns exactly that many slides, each a record of
\* exactly the three string fields type, title and content.
C1_SuccessHasExactlyN ==
    (/\ pc = "done"
     /\ result.kind = "ok"
     /\ ~reqCount.isNone
     /\ reqCount.v \in MinSlides..MaxSlides)
    => /\ Strip(reqTopic) # <<>>
       /\ Len(result.slides) = reqCount.v
       /\ \A j \in 1..Len(result.slides) : IsSlide(result.slides[j])

\* C1 witness: a PDF request for 15 slides that succeeds on the retry
C1_Witness ==
    /\ pc = "done" /\ result.kind = "ok" /\ route = "downloadPdf"
    /\ ~reqCount.isNone /\ reqCount.v = MaxSlides
    /\ att2.norm = "slides"
    /\ Len(result.slides) = MaxSlides

\* C2: a completion text of attempt 1 that does not decode as JSON is
\* followed by attempt 2, and the "Invalid JSON" error ends the request only
\* for attempt 2.
C2_DecodeFailureIsRetried ==
    pc = "done" =>
        /\ (att1.decode = "fail" => att2.called /\ Len(calls) = 2)
        /\ (result.detail = "Invalid JSON from model" => att2.decode = "fail")

\* C3: an empty trimmed topic or a slideCount outside [3,15] ends in a 400
\* with no call to the endpoint; every other request passes validation.
C3_ValidationRejectsOutOfRange ==
    LET invalid == \/ Strip(reqTopic) = <<>>
                   \/ (~reqCount.isNone /\ ~(reqCount.v \in MinSlides..MaxSlides))
    IN  pc # "received" =>
            /\ (invalid => /\ pc = "done"
                           /\ result.kind = "error"
                           /\ result.status = 400
                           /\ calls = <<>>)
            /\ (~invalid => result.status # 400)

\* min(6500, 1200 + 350 * nn), written out
IsBudget(b, nn) ==
    /\ b <= 6500
    /\ b <= 1200 + 350 * nn
    /\ (b = 6500 \/ b = 1200 + 350 * nn)

\* C4: at most two calls are made; the first uses the primary prompt and
\* the budget min(6500, 1200 + 350 n), the second the retry prompt and that
\* budget plus 1200; the second is made exactly when the first returned and
\* normalize_slides gave None for attempt 1; an attempt 1 that normalizes
\* ends the request in success after one call.
C4_AtMostTwoCalls ==
    /\ Len(calls) <= 2
    /\ (Len(calls) >= 1 =>
            /\ calls[1].prompt = "build_prompt"
            /\ IsBudget(calls[1].max_tokens, n))
    /\ (Len(calls) = 2 =>
            /\ calls[2].prompt = "build_retry_prompt"
            /\ IsBudget(calls[2].max_tokens - 1200, n))
    /\ (Len(calls) = 2 => att1.out = "text" /\ att1.norm = "None")
    /\ (pc = "done" /\ att1.out = "text" /\ att1.norm = "None"
            => Len(calls) = 2 /\ att2.called)
    /\ (pc = "attempt2" <=> (att1.norm = "None" /\ ~att2.called))
    /\ (att1.norm = "slides" =>
            pc = "done" /\ result.kind = "ok" /\ Len(calls) = 1)

\* C4 witness: a retry for 15 slides, posted with budget 6450 + 1200
C4_Witness ==
    /\ pc = "done" /\ Len(calls) = 2
    /\ calls[1].max_tokens = 6450
    /\ calls[2].max_tokens = 7650
    /\ att1.norm = "None"

\* C5: a non-2xx status on either attempt ends the request at once with
\* that status and body and no further call; without the credential the
\* request fails and nothing is ever posted.
C5_UpstreamFailureIsTerminal ==
    /\ \A a \in Attempts :
          UpstreamFailure(a) =>
              /\ pc = "done"
              /\ result.kind = "error"
              /\ result.status = a.status
              /\ result.body = a.body
    /\ (UpstreamFailure(att1) => ~att2.called /\ Len(calls) = 1)
    /\ (UpstreamFailure(att2) => Len(calls) = 2)
    /\ (~keyPresent =>
            /\ calls = <<>>
            /\ pc # "attempt2"
            /\ (pc = "done" => result.kind = "error"))

\* C5 witness: the retry is answered 503
C5_Witness ==
    /\ pc = "done" /\ att2.called /\ att2.status = 503
    /\ result.status = 503 /\ result.body = ErrorBody

\* C6: whatever text the endpoint returns, the normalizer (clean-up,
\* decoding, normalize_slides) yields n slides or None and never raises.
C6_NormalizerNeverRaises ==
    \A a \in Attempts :
        a.out = "text" =>
            /\ a.decode = "ok"
            /\ a.norm \in {"slides", "None"}
            /\ (a.norm = "slides" => Len(a.slides) = n)

-----------------------------------------------------------------------------
(* Properties of normalize_slides (checked under SpecNorm) *)

\* the decoded value has a slides field that is an array or a mapping
HasSlideSeq(d) ==
    /\ d.k = "dict"
    /\ KeyPos(d, K_slides) # 0
    /\ d.items[KeyPos(d, K_slides)].k \in {"list", "dict"}

\* its entries: the array, or the values of the mapping in insertion order
SlideSeq(d) == d.items[KeyPos(d, K_slides)].items

IsDict(v) == v.k = "dict"

Min(a, b) == IF a < b THEN a ELSE b

\* C7 as stated: fewer than n entries, or an entry that is not an object at
\* any position of the supplied slides, makes normalize_slides return None.
C7_AnyBadEntryRejected ==
    (normPc = "returned" /\ HasSlideSeq(normIn)) =>
        LET es == SlideSeq(normIn)
        IN  (\/ Len(es) < normN
             \/ \E j \in 1..Len(es) : ~IsDict(es[j]))
            => normOut = NormNone

\* C7 amended: fewer than n entries, or an entry that is not an object
\* among the first n entries, makes normalize_slides return None.
C7_BadEntryInFirstNRejected ==
    (normPc = "returned" /\ HasSlideSeq(normIn)) =>
        LET es == SlideSeq(normIn)
        IN  (\/ Len(es) < normN
             \/ \E j \in 1..Min(normN, Len(es)) : ~IsDict(es[j]))
            => normOut = NormNone

\* C7 witness: more than n entries, the n-th is not an object, None returned
C7_Witness ==
    /\ normPc = "returned" /\ HasSlideSeq(normIn)
    /\ Len(SlideSeq(normIn)) > normN
    /\ ~IsDict(SlideSeq(normIn)[normN])
    /\ \A j \in 1..(normN - 1) : IsDict(SlideSeq(normIn)[j])
    /\ normOut = NormNone

HasEdgeSpace(t) ==
    t # <<>> /\ (t[1] \in Whitespace \/ t[Len(t)] \in Whitespace)

\* field of a returned slide against the entry it came from: the default
\* when the key is absent, the trimmed value when it is a string, and in
\* every case a string without leading or trailing whitespace
FieldMatches(out, e, key, default) ==
    /\ IsStr(out)
    /\ ~HasEdgeSpace(out)
    /\ (KeyPos(e, key) = 0 => out = default)
    /\ (KeyPos(e, key) # 0 /\ e.items[KeyPos(e, key)].k = "str"
            => out = Strip(e.items[KeyPos(e, key)].s))
    /\ (KeyPos(e, key) # 0 /\ e.items[KeyPos(e, key)].k = "int"
            => out = e.items[KeyPos(e, key)].s)

\* C8: for slides given as an array or a mapping of n + k objects,
\* normalize_slides returns the first n, in order, each coerced to the three
\* trimmed string fields with the defaults "overview", "", ""; the array
\* form and the mapping form of the same entries give the same result.
C8_FirstNCoerced ==
    (/\ normPc = "returned"
     /\ HasSlideSeq(normIn)
     /\ Len(SlideSeq(normIn)) >= normN
     /\ \A j \in 1..Len(SlideSeq(normIn)) : IsDict(SlideSeq(normIn)[j]))
    => LET es == SlideSeq(normIn)
       IN  /\ normOut.kind = "slides"
           /\ Len(normOut.slides) = normN
           /\ \A j \in 1..normN :
                 /\ DOMAIN normOut.slides[j] = {"type", "title", "content"}
                 /\ FieldMatches(normOut.slides[j].type, es[j], K_type,
                                 <<"o","v","e","r","v","i","e","w">>)
                 /\ FieldMatches(normOut.slides[j].title, es[j], K_title, <<>>)
                 /\ FieldMatches(normOut.slides[j].content, es[j], K_content, <<>>)
           /\ normOut = normalize_slides(ArrayForm(es), normN)
           /\ normOut = normalize_slides(MappingForm(es), normN)

\* C8 witness: a mapping of n + 1 objects, the extra one differing from the
\* first, normalized to n slides
C8_Witness ==
    /\ normPc = "returned" /\ HasSlideSeq(normIn)
    /\ normIn.items[KeyPos(normIn, K_slides)].k = "dict"
    /\ Len(SlideSeq(normIn)) = normN + 1
    /\ \A j \in 1..(normN + 1) : IsDict(SlideSeq(normIn)[j])
    /\ SlideSeq(normIn)[1] = E_full
    /\ SlideSeq(normIn)[normN + 1] = E_sparse
    /\ normOut.kind = "slides"

-----------------------------------------------------------------------------
(* Properties of build_pdf (checked under SpecPdf) *)

RECURSIVE Flatten(_)
Flatten(ss) == IF ss = <<>> THEN <<>> ELSE Head(ss) \o Flatten(Tail(ss))

\* the wrapped lines of paragraph b of slide s, tagged with their place
TaggedLines(s, b) ==
    LET w == wrap_text(pdfSlides[s][b], MaxChars)
    IN  [j \in 1..Len(w) |-> [slide |-> s, block |-> b, line |-> w[j]]]

\* every wrapped line of every paragraph of every slide, in source order
ExpectedLines ==
    Flatten([s \in 1..Len(pdfSlides) |->
                Flatten([b \in 1..Len(pdfSlides[s]) |-> TaggedLines(s, b)])])

DrawnLines ==
    [j \in 1..Len(drawn) |->
        [slide |-> drawn[j].slide, block |-> drawn[j].block,
         line |-> drawn[j].line]]

IsPrefix(a, b) == Len(a) <= Len(b) /\ a = SubSeq(b, 1, Len(a))

\* lines that fit on the first page of a slide when nothing else is there
FirstPageLines == ((ContentTop - BottomMargin) \div LineHeight) + 1

LinesOfSlide(s) == Cardinality({j \in 1..Len(drawn) : drawn[j].slide = s})
PagesOfSlide(s) == Cardinality({j \in 1..Len(pages) : pages[j].slide = s})

\* C9: the drawn lines are the wrapped lines of the non-empty paragraphs,
\* each once and in source order; wrapping keeps the words of a paragraph;
\* every line is drawn at or above the bottom margin; a line that starts a
\* continuation page is drawn at the top of it; a finished slide with more
\* lines than a page holds has more than one page.
C9_NoLineLostOrClipped ==
    /\ IsPrefix(DrawnLines, ExpectedLines)
    /\ (pdfPc = "saved" => DrawnLines = ExpectedLines)
    /\ \A s \in 1..Len(pdfSlides) : \A b \in 1..Len(pdfSlides[s]) :
          Flatten(wrap_text(pdfSlides[s][b], MaxChars)) = pdfSlides[s][b]
    /\ \A j \in 1..Len(drawn) :
          /\ drawn[j].y >= (5 * Cm) \div 2
          /\ drawn[j].page > 1
          /\ (j > 1 /\ drawn[j - 1].slide = drawn[j].slide =>
                \/ /\ drawn[j].page = drawn[j - 1].page
                   /\ drawn[j].y <= drawn[j - 1].y - LineHeight
                \/ /\ drawn[j].page = drawn[j - 1].page + 1
                   /\ drawn[j].y = PageHeight - 3 * Cm
                   /\ drawn[j - 1].y - LineHeight < (5 * Cm) \div 2)
    /\ \A s \in 1..Len(pdfSlides) :
          (s < si \/ pdfPc = "saved") /\ LinesOfSlide(s) > FirstPageLines
              => PagesOfSlide(s) > 1

\* C9 witness: a finished document one slide of which runs over three pages
C9_Witness ==
    /\ pdfPc = "saved"
    /\ \E s \in 1..Len(pdfSlides) :
          PagesOfSlide(s) >= 3 /\ LinesOfSlide(s) > 2 * FirstPageLines
    /\ DrawnLines = ExpectedLines

\* C10: every finished page of a slide carries the footer caption.
C10_FooterOnEveryPage ==
    \A j \in 1..Len(pages) : pages[j].slide >= 1 => pages[j].footer

====
